---- MODULE Spec2Model ----
(***************************************************************************)
(* One round ("hand") of UNO as implemented in src/src/model/hand.ts, with *)
(* the deck primitives of deck.ts (src/unnamed/part_002, lines 460-573).   *)
(*                                                                         *)
(* Arrays of the source are sequences here; a 0-based index i of the       *)
(* source addresses element i + 1 of the sequence.  Players are numbered   *)
(* 0 .. playerCount - 1 as in the source.                                  *)
(***************************************************************************)
EXTENDS Integers, Sequences, FiniteSets, TLC

(***************************************************************************)
(* Bounds of the exploration.                                              *)
(***************************************************************************)
\* largest number of players enumerated among the valid ones
MaxPlayers == 3
\* number of calls that change the Hand explored after createHand
MaxSteps == 4
\* play is tried on the first MaxHead cards of a hand, on its last card and
\* on the index one past the end
MaxHead == 2
\* number of Hands one Game creates
MaxHands == 3
\* number of calls that change the Game's current Hand explored per Hand
MaxGameSteps == 1
\* number of iterations within which the reshuffling loop of createHand is
\* required to end
ReshuffleLimit == 32

(***************************************************************************)
(* Absent values.                                                          *)
(***************************************************************************)
\* playerInTurn === undefined
Undefined == -1
\* previousPlayer === null
Null == -1
\* a card without a color (WILD, WILD DRAW before being played), and the
\* omitted color argument of play
NoColor == "NONE"
\* a card without a number
NoNumber == -1
\* the value of an array element that does not exist (hand.ts:32 on an
\* empty discard pile)
UndefinedCard == [type |-> "undefined", color |-> NoColor, number |-> NoNumber]

(***************************************************************************)
(* deck.ts                                                                 *)
(***************************************************************************)
colors == <<"RED", "YELLOW", "GREEN", "BLUE">>

Color == {colors[i] : i \in 1..Len(colors)}

createNumberedCard(color, number) ==
    [type |-> "NUMBERED", color |-> color, number |-> number]

createSpecialCard(type, color) ==
    [type |-> type, color |-> color, number |-> NoNumber]

createWildCard(type) ==
    [type |-> type, color |-> NoColor, number |-> NoNumber]

\* the cards generateNumberedCards maps a color to: one 0 and two each of 1..9
numberedCardsOf(color) ==
    [i \in 1..19 |->
        IF i = 1 THEN createNumberedCard(color, 0) ELSE createNumberedCard(color, i \div 2)]

\* flatten(map(numberedCardsOf, colors))
generateNumberedCards ==
    [i \in 1..(Len(colors) * 19) |->
        numberedCardsOf(colors[((i - 1) \div 19) + 1])[((i - 1) % 19) + 1]]

\* the cards generateSpecialCards maps a color to: two each of SKIP, REVERSE, DRAW
specialCardsOf(color) ==
    [i \in 1..6 |-> createSpecialCard(<<"SKIP", "REVERSE", "DRAW">>[(i + 1) \div 2], color)]

\* flatten(map(specialCardsOf, colors))
generateSpecialCards ==
    [i \in 1..(Len(colors) * 6) |->
        specialCardsOf(colors[((i - 1) \div 6) + 1])[((i - 1) % 6) + 1]]

\* four WILD then four WILD DRAW
generateWildCards ==
    [i \in 1..8 |-> createWildCard(IF i <= 4 THEN "WILD" ELSE "WILD DRAW")]

createInitialDeck ==
    generateNumberedCards \o generateSpecialCards \o generateWildCards

DeckSize == Len(createInitialDeck)

\* An injected Shuffler<Card>: a deterministic permutation of its argument.
\* [rot |-> k, rev |-> b] rotates the pile left by k (mod its length) and then,
\* when b, reverses it.
ApplyShuffler(s, deck) ==
    LET n == Len(deck)
        r == IF n = 0 THEN 0 ELSE s.rot % n
        rotated == [i \in 1..n |-> deck[((i - 1 + r) % n) + 1]]
    IN  IF s.rev THEN [i \in 1..n |-> rotated[n + 1 - i]] ELSE rotated

shuffleDeck(shuffler, deck) == ApplyShuffler(shuffler, deck)

\* dealCards(count)(deck): <<the first count cards, the remainder>>; fewer
\* cards when the deck is shorter
dealCards(count, deck) ==
    LET k == IF count < Len(deck) THEN count ELSE Len(deck)
    IN  <<SubSeq(deck, 1, k), SubSeq(deck, k + 1, Len(deck))>>

isWild(card) == card.type = "WILD" \/ card.type = "WILD DRAW"

(***************************************************************************)
(* hand.ts: helpers                                                        *)
(***************************************************************************)
\* update(index, value, array) of ramda on a per-player array
update(index, value, array) == [array EXCEPT ![index] = value]

RECURSIVE drawLoopRecyclesTop(_, _, _, _, _)
\* the loop of drawCards shuffling the whole discard pile, its top card
\* included, into the new draw pile
drawLoopRecyclesTop(i, drawPile, discardPile, cards, shuffler) ==
    IF i <= 0
    THEN [drawPile |-> drawPile, discardPile |-> discardPile, cards |-> cards]
    ELSE LET dealt == dealCards(1, drawPile)
             cards1 == cards \o dealt[1]
             remainingDeck == dealt[2]
         IN  IF Len(remainingDeck) = 0
             THEN LET topCard == IF Len(discardPile) = 0 THEN UndefinedCard
                                 ELSE Head(discardPile)
                  IN  drawLoopRecyclesTop(i - 1, shuffleDeck(shuffler, discardPile),
                                          <<topCard>>, cards1, shuffler)
             ELSE drawLoopRecyclesTop(i - 1, remainingDeck, discardPile, cards1, shuffler)

RECURSIVE drawLoopRecyclesAll(_, _, _, _, _)
\* the loop of drawCards moving the whole discard pile into the new draw
\* pile and leaving no card on the discard pile
drawLoopRecyclesAll(i, drawPile, discardPile, cards, shuffler) ==
    IF i <= 0
    THEN [drawPile |-> drawPile, discardPile |-> discardPile, cards |-> cards]
    ELSE LET dealt == dealCards(1, drawPile)
             cards1 == cards \o dealt[1]
             remainingDeck == dealt[2]
         IN  IF Len(remainingDeck) = 0
             THEN drawLoopRecyclesAll(i - 1,
                      shuffleDeck(shuffler, SelectSeq(discardPile, LAMBDA c : c # UndefinedCard)),
                      <<UndefinedCard>>, cards1, shuffler)
             ELSE drawLoopRecyclesAll(i - 1, remainingDeck, discardPile, cards1, shuffler)

RECURSIVE drawLoop(_, _, _, _, _)
\* the loop of drawCards (hand.ts:26-36) with i iterations left
drawLoop(i, drawPile, discardPile, cards, shuffler) ==
    IF i <= 0
    THEN [drawPile |-> drawPile, discardPile |-> discardPile, cards |-> cards]
    ELSE LET dealt == dealCards(1, drawPile)
             cards1 == cards \o dealt[1]
             remainingDeck == dealt[2]
         IN  IF Len(remainingDeck) = 0
             THEN LET topCard == IF Len(discardPile) = 0 THEN UndefinedCard
                                 ELSE Head(discardPile)
                      restCards == IF Len(discardPile) = 0 THEN <<>>
                                   ELSE Tail(discardPile)
                  IN  drawLoop(i - 1, shuffleDeck(shuffler, restCards),
                               <<topCard>>, cards1, shuffler)
             ELSE drawLoop(i - 1, remainingDeck, discardPile, cards1, shuffler)

\* drawCards with the draw pile left as it was: the cards handed out stay in it
drawCardsKeepsDrawPile(playerIndex, amount, hand) ==
    LET r == drawLoop(amount, hand.drawPile, hand.discardPile, <<>>, hand.shuffler)
    IN  [hand EXCEPT
            !.hands = update(playerIndex, hand.hands[playerIndex] \o r.cards, hand.hands),
            !.discardPile = r.discardPile,
            !.unoCalls = update(playerIndex, FALSE, hand.unoCalls)]

drawCards(playerIndex, amount, hand) ==
    LET r == drawLoop(amount, hand.drawPile, hand.discardPile, <<>>, hand.shuffler)
    IN  [hand EXCEPT
            !.hands = update(playerIndex, hand.hands[playerIndex] \o r.cards, hand.hands),
            !.drawPile = r.drawPile,
            !.discardPile = r.discardPile,
            !.unoCalls = update(playerIndex, FALSE, hand.unoCalls)]

\* isPlayable without the match by number or by action type
isPlayableByColorOnly(playerHand, card, topCard) ==
    IF card.color = topCard.color THEN TRUE
    ELSE IF card.type = "WILD" THEN TRUE
    ELSE IF card.type = "WILD DRAW"
         THEN \A k \in 1..Len(playerHand) : playerHand[k].color # topCard.color
    ELSE FALSE

isPlayable(playerHand, card, topCard) ==
    IF card.color = topCard.color THEN TRUE
    ELSE IF card.type = "WILD" THEN TRUE
    ELSE IF card.type = "WILD DRAW"
         THEN \A k \in 1..Len(playerHand) : playerHand[k].color # topCard.color
    ELSE IF card.type = "NUMBERED" /\ card.number = topCard.number THEN TRUE
    ELSE card.type = topCard.type /\ card.type # "NUMBERED"

\* getNextPlayer wrapping to the first or the last seat whatever the overshoot
\* (the variant of src/unnamed/part_000)
getNextPlayerClamped(hand, skip) ==
    LET modifier == IF skip THEN hand.direction * 2 ELSE hand.direction
        next == hand.playerInTurn + modifier
    IN  IF next >= hand.playerCount THEN 0
        ELSE IF next < 0 THEN hand.playerCount - 1
        ELSE next

\* getNextPlayer without the wraparound
getNextPlayerUnwrapped(hand, skip) ==
    hand.playerInTurn + (IF skip THEN hand.direction * 2 ELSE hand.direction)

\* getNextPlayer(hand, skip) for a hand with a player in turn
getNextPlayer(hand, skip) ==
    LET modifier == IF skip THEN hand.direction * 2 ELSE hand.direction
        next == hand.playerInTurn + modifier
    IN  IF next >= hand.playerCount THEN next % hand.playerCount
        ELSE IF next < 0 THEN hand.playerCount + next
        ELSE next

hasEnded(hand) ==
    \/ hand.playerInTurn = Undefined
    \/ \E p \in 0..(hand.playerCount - 1) : Len(hand.hands[p]) = 0

canPlay(cardIndex, hand) ==
    IF hasEnded(hand) THEN FALSE
    ELSE IF hand.playerInTurn = Undefined THEN FALSE
    ELSE LET playerHand == hand.hands[hand.playerInTurn]
         IN  IF cardIndex < 0 \/ cardIndex >= Len(playerHand) THEN FALSE
             ELSE isPlayable(playerHand, playerHand[cardIndex + 1], hand.discardPile[1])

canPlayAny(hand) ==
    IF hand.playerInTurn = Undefined THEN FALSE
    ELSE \E index \in 0..(Len(hand.hands[hand.playerInTurn]) - 1) : canPlay(index, hand)

topOfDiscard(hand) == hand.discardPile[1]


(***************************************************************************)
(* Errors thrown by hand.ts, by message.                                   *)
(***************************************************************************)
NoError == ""
InvalidPlayerCount == "Invalid number of players"
NotEnoughCards == "Not enough cards to deal"
GameEnded == "Game has ended"
CardNotFound == "Card not found"
ColorOnColoredCard == "Cannot set colour of a non-WILD card"
ColorRequired == "Color is required for WILD cards"
IllegalColorAssignment == {ColorOnColoredCard, ColorRequired}
IllegalPlay == "Cannot play this card"
PlayerIndexOutOfBounds == "Player index out of bounds"

(***************************************************************************)
(* hand.ts: play                                                           *)
(***************************************************************************)
\* play without the legality check of hand.ts:172-174
playErrorWithoutLegality(cardIndex, color, hand) ==
    IF hand.playerInTurn = Undefined THEN GameEnded
    ELSE LET playerHand == hand.hands[hand.playerInTurn]
         IN  IF cardIndex < 0 \/ cardIndex >= Len(playerHand) THEN CardNotFound
             ELSE LET card == playerHand[cardIndex + 1]
                  IN  IF card.color # NoColor /\ color # NoColor THEN ColorOnColoredCard
                      ELSE IF isWild(card) /\ color = NoColor THEN ColorRequired
                      ELSE NoError

\* play with the legality check ahead of the check of the color argument
playErrorLegalityFirst(cardIndex, color, hand) ==
    IF hand.playerInTurn = Undefined THEN GameEnded
    ELSE LET playerHand == hand.hands[hand.playerInTurn]
         IN  IF cardIndex < 0 \/ cardIndex >= Len(playerHand) THEN CardNotFound
             ELSE LET card == playerHand[cardIndex + 1]
                  IN  IF ~canPlay(cardIndex, hand) THEN IllegalPlay
                      ELSE IF card.color # NoColor /\ color # NoColor THEN ColorOnColoredCard
                      ELSE IF isWild(card) /\ color = NoColor THEN ColorRequired
                      ELSE NoError

\* the error play throws, NoError when it returns (hand.ts:157-178)
playError(cardIndex, color, hand) ==
    IF hand.playerInTurn = Undefined THEN GameEnded
    ELSE LET playerHand == hand.hands[hand.playerInTurn]
         IN  IF cardIndex < 0 \/ cardIndex >= Len(playerHand) THEN CardNotFound
             ELSE LET card == playerHand[cardIndex + 1]
                  IN  IF card.color # NoColor /\ color # NoColor THEN ColorOnColoredCard
                      ELSE IF ~canPlay(cardIndex, hand) THEN IllegalPlay
                      ELSE IF isWild(card) /\ color = NoColor THEN ColorRequired
                      ELSE NoError

\* the per-player flags kept by a non-terminal play (hand.ts:235-237)
playUnoCalls(hand) ==
    [i \in 0..(hand.playerCount - 1) |->
        IF i = hand.playerInTurn \/ i = hand.previousPlayer
        THEN hand.unoCalls[i] ELSE FALSE]

\* the player in turn after a play of card by hand.playerInTurn (hand.ts:199-217)
playNextPlayer(card, hand) ==
    IF card.type = "REVERSE"
    THEN IF hand.playerCount = 2 THEN hand.playerInTurn
         ELSE getNextPlayer([hand EXCEPT !.direction = IF hand.direction = 1 THEN -1 ELSE 1],
                            FALSE)
    ELSE IF card.type \in {"SKIP", "DRAW", "WILD DRAW"} THEN getNextPlayer(hand, TRUE)
    ELSE getNextPlayer(hand, FALSE)

\* REVERSE flipping the direction among two players as well
playDirectionAlwaysFlips(card, hand) ==
    IF card.type = "REVERSE" THEN (IF hand.direction = 1 THEN -1 ELSE 1) ELSE hand.direction

\* the direction after a play of card (hand.ts:200-208)
playDirection(card, hand) ==
    IF card.type = "REVERSE" /\ hand.playerCount # 2
    THEN (IF hand.direction = 1 THEN -1 ELSE 1)
    ELSE hand.direction

\* the number of cards the next player is made to draw by card (hand.ts:211-216)
forcedDraw(card) ==
    IF card.type = "DRAW" THEN 2 ELSE IF card.type = "WILD DRAW" THEN 4 ELSE 0

\* the termination check testing for a single card left instead of none
roundEndsOnLastCard(updatedHands, playerInTurn) == Len(updatedHands[playerInTurn]) = 1

\* the termination check of play (hand.ts:219)
roundEnds(updatedHands, playerInTurn) == Len(updatedHands[playerInTurn]) = 0

\* play placing a wild card on the discard pile as it was held, without the
\* chosen color
playHandKeepsCardAsHeld(cardIndex, color, hand) ==
    LET p == hand.playerInTurn
        playerHand == hand.hands[p]
        card == playerHand[cardIndex + 1]
        updatedHands ==
            update(p, SubSeq(playerHand, 1, cardIndex)
                        \o SubSeq(playerHand, cardIndex + 2, Len(playerHand)),
                   hand.hands)
        playedCard == card
        placed == [hand EXCEPT
                      !.hands = updatedHands,
                      !.discardPile = <<playedCard>> \o hand.discardPile,
                      !.currentColor = IF color # NoColor THEN color ELSE playedCard.color]
        newHand == IF forcedDraw(card) > 0
                   THEN drawCards(getNextPlayer(hand, FALSE), forcedDraw(card), placed)
                   ELSE placed
    IN  IF roundEnds(updatedHands, p)
        THEN [newHand EXCEPT
                 !.direction = playDirection(card, hand),
                 !.playerInTurn = Undefined,
                 !.previousPlayer = p,
                 !.isAccusationWindowOpen = FALSE]
        ELSE [newHand EXCEPT
                 !.direction = playDirection(card, hand),
                 !.playerInTurn = playNextPlayer(card, hand),
                 !.previousPlayer = p,
                 !.isAccusationWindowOpen = TRUE,
                 !.unoCalls = playUnoCalls(hand)]

\* play ending the round before the forced draw of the card played
playHandEndsBeforeForcedDraw(cardIndex, color, hand) ==
    LET p == hand.playerInTurn
        playerHand == hand.hands[p]
        card == playerHand[cardIndex + 1]
        updatedHands ==
            update(p, SubSeq(playerHand, 1, cardIndex)
                        \o SubSeq(playerHand, cardIndex + 2, Len(playerHand)),
                   hand.hands)
        playedCard == IF isWild(card) THEN [card EXCEPT !.color = color] ELSE card
        placed == [hand EXCEPT
                      !.hands = updatedHands,
                      !.discardPile = <<playedCard>> \o hand.discardPile,
                      !.currentColor = IF color # NoColor THEN color ELSE playedCard.color]
        newHand == IF forcedDraw(card) > 0 /\ ~roundEnds(updatedHands, p)
                   THEN drawCards(getNextPlayer(hand, FALSE), forcedDraw(card), placed)
                   ELSE placed
    IN  IF roundEnds(updatedHands, p)
        THEN [newHand EXCEPT
                 !.direction = playDirection(card, hand),
                 !.playerInTurn = Undefined,
                 !.previousPlayer = p,
                 !.isAccusationWindowOpen = FALSE]
        ELSE [newHand EXCEPT
                 !.direction = playDirection(card, hand),
                 !.playerInTurn = playNextPlayer(card, hand),
                 !.previousPlayer = p,
                 !.isAccusationWindowOpen = TRUE,
                 !.unoCalls = playUnoCalls(hand)]

\* the Hand play returns when it throws nothing (hand.ts:180-238)
playHand(cardIndex, color, hand) ==
    LET p == hand.playerInTurn
        playerHand == hand.hands[p]
        card == playerHand[cardIndex + 1]
        updatedHands ==
            update(p, SubSeq(playerHand, 1, cardIndex)
                        \o SubSeq(playerHand, cardIndex + 2, Len(playerHand)),
                   hand.hands)
        playedCard == IF isWild(card) THEN [card EXCEPT !.color = color] ELSE card
        placed == [hand EXCEPT
                      !.hands = updatedHands,
                      !.discardPile = <<playedCard>> \o hand.discardPile,
                      !.currentColor = IF color # NoColor THEN color ELSE playedCard.color]
        newHand == IF forcedDraw(card) > 0
                   THEN drawCards(getNextPlayer(hand, FALSE), forcedDraw(card), placed)
                   ELSE placed
    IN  IF roundEnds(updatedHands, p)
        THEN [newHand EXCEPT
                 !.direction = playDirection(card, hand),
                 !.playerInTurn = Undefined,
                 !.previousPlayer = p,
                 !.isAccusationWindowOpen = FALSE]
        ELSE [newHand EXCEPT
                 !.direction = playDirection(card, hand),
                 !.playerInTurn = playNextPlayer(card, hand),
                 !.previousPlayer = p,
                 !.isAccusationWindowOpen = TRUE,
                 !.unoCalls = playUnoCalls(hand)]

(***************************************************************************)
(* hand.ts: draw                                                           *)
(***************************************************************************)
drawError(hand) == IF hand.playerInTurn = Undefined THEN GameEnded ELSE NoError

\* the Hand draw returns when it throws nothing (hand.ts:246-257)
drawHand(hand) ==
    LET newHand == drawCards(hand.playerInTurn, 1, hand)
    IN  IF ~canPlayAny(newHand)
        THEN [newHand EXCEPT
                 !.playerInTurn = getNextPlayer(newHand, FALSE),
                 !.previousPlayer = hand.playerInTurn,
                 !.isAccusationWindowOpen = FALSE]
        ELSE newHand

(***************************************************************************)
(* hand.ts: the UNO protocol                                               *)
(***************************************************************************)
checkUnoFailureError(accused, hand) ==
    IF accused < 0 \/ accused >= hand.playerCount THEN PlayerIndexOutOfBounds ELSE NoError

\* checkUnoFailure without the test of the accused's unoCalls entry
checkUnoFailureIgnoresUnoCall(accuser, accused, hand) ==
    IF ~hand.isAccusationWindowOpen \/ accused # hand.previousPlayer THEN FALSE
    ELSE Len(hand.hands[accused]) = 1

\* checkUnoFailure for an accused within bounds (hand.ts:288-293)
checkUnoFailure(accuser, accused, hand) ==
    IF ~hand.isAccusationWindowOpen \/ accused # hand.previousPlayer THEN FALSE
    ELSE Len(hand.hands[accused]) = 1 /\ ~hand.unoCalls[accused]

catchUnoFailureError(accused, hand) ==
    IF accused < 0 \/ accused >= hand.playerCount THEN PlayerIndexOutOfBounds ELSE NoError

\* catchUnoFailure penalising the accused whatever checkUnoFailure says
catchUnoFailureIgnoresCheck(accuser, accused, hand) ==
    drawCards(accused, 4, [hand EXCEPT !.isAccusationWindowOpen = FALSE])

\* catchUnoFailure leaving the accusation window as it was
catchUnoFailureLeavesWindowOpen(accuser, accused, hand) ==
    IF ~checkUnoFailure(accuser, accused, hand) THEN hand
    ELSE drawCards(accused, 4, hand)

\* catchUnoFailure recording the accuser as the previous player
catchUnoFailureRecordsAccuser(accuser, accused, hand) ==
    IF ~checkUnoFailure(accuser, accused, hand) THEN hand
    ELSE drawCards(accused, 4, [hand EXCEPT !.isAccusationWindowOpen = FALSE,
                                            !.previousPlayer = accuser])

\* catchUnoFailure for an accused within bounds (hand.ts:301-309)
catchUnoFailure(accuser, accused, hand) ==
    IF ~checkUnoFailure(accuser, accused, hand) THEN hand
    ELSE drawCards(accused, 4, [hand EXCEPT !.isAccusationWindowOpen = FALSE])

sayUnoError(playerIndex, hand) ==
    IF hasEnded(hand) THEN GameEnded
    ELSE IF playerIndex < 0 \/ playerIndex >= hand.playerCount THEN PlayerIndexOutOfBounds
    ELSE NoError

\* sayUno accepted only from a player holding a single card
sayUnoOnLastCardOnly(playerIndex, hand) ==
    IF Len(hand.hands[playerIndex]) > 1 THEN hand
    ELSE [hand EXCEPT !.unoCalls = update(playerIndex, TRUE, hand.unoCalls)]

\* sayUno when it throws nothing (hand.ts:322-329)
sayUno(playerIndex, hand) ==
    IF Len(hand.hands[playerIndex]) > 2 THEN hand
    ELSE [hand EXCEPT !.unoCalls = update(playerIndex, TRUE, hand.unoCalls)]

(***************************************************************************)
(* hand.ts: winner and score                                               *)
(***************************************************************************)
\* findIndex: the first player with an empty hand, -1 when there is none
winner(hand) ==
    IF ~hasEnded(hand) THEN Undefined
    ELSE IF \E p \in 0..(hand.playerCount - 1) : Len(hand.hands[p]) = 0
         THEN CHOOSE p \in 0..(hand.playerCount - 1) :
                 /\ Len(hand.hands[p]) = 0
                 /\ \A q \in 0..(p - 1) : Len(hand.hands[q]) # 0
         ELSE -1

\* getCardScore without the value of a wild card
getCardScoreWildAsAction(card) ==
    IF card.type # "NUMBERED" THEN 20 ELSE card.number

getCardScore(card) ==
    IF isWild(card) THEN 50
    ELSE IF card.type # "NUMBERED" THEN 20
    ELSE card.number

RECURSIVE sumCards(_)
sumCards(cards) ==
    IF Len(cards) = 0 THEN 0 ELSE getCardScore(Head(cards)) + sumCards(Tail(cards))

RECURSIVE sumHands(_, _, _)
sumHands(hand, winningPlayer, index) ==
    IF index >= hand.playerCount THEN 0
    ELSE (IF index = winningPlayer THEN 0 ELSE sumCards(hand.hands[index]))
         + sumHands(hand, winningPlayer, index + 1)

score(hand) ==
    IF ~hasEnded(hand) THEN Undefined
    ELSE sumHands(hand, winner(hand), 0)


(***************************************************************************)
(* hand.ts: createHand                                                     *)
(***************************************************************************)
\* the Hand value built at hand.ts:90-104
newHand(playerCount, dealer, shuffler) ==
    [playerCount |-> playerCount,
     dealer |-> dealer,
     playerInTurn |-> dealer,
     hands |-> [i \in 0..(playerCount - 1) |-> <<>>],
     discardPile |-> <<>>,
     drawPile |-> shuffleDeck(shuffler, createInitialDeck),
     direction |-> 1,
     unoCalls |-> [i \in 0..(playerCount - 1) |-> FALSE],
     previousPlayer |-> Null,
     isAccusationWindowOpen |-> FALSE,
     currentColor |-> NoColor,
     shuffler |-> shuffler]

RECURSIVE dealInitialCards(_, _, _)
\* the dealing loop of createHand (hand.ts:107-109), from player i on
dealInitialCards(i, cardsPerPlayer, hand) ==
    IF i >= hand.playerCount THEN hand
    ELSE dealInitialCards(i + 1, cardsPerPlayer, drawCards(i, cardsPerPlayer, hand))

\* a loop condition that lets any card be revealed
topIsWildIgnored(pile) == FALSE

\* the loop condition at hand.ts:113
topIsWild(pile) == Len(pile) > 0 /\ isWild(pile[1])

\* createHand without the effect of the revealed card
revealTopCardWithoutEffect(topCard, remainingDeck, hand) ==
    [hand EXCEPT
        !.drawPile = remainingDeck,
        !.discardPile = <<topCard>>,
        !.currentColor = topCard.color,
        !.direction = 1,
        !.playerInTurn = (hand.dealer + 1) % hand.playerCount]

\* createHand from the revealed top card on (hand.ts:122-153)
revealTopCard(topCard, remainingDeck, hand) ==
    LET n == hand.playerCount
        dealer == hand.dealer
        direction == IF topCard.type = "REVERSE" THEN -1 ELSE 1
        playerInTurn ==
            IF topCard.type = "REVERSE"
            THEN (IF dealer - 1 < 0 THEN n - 1 ELSE dealer - 1)
            ELSE IF topCard.type = "SKIP" THEN (dealer + 2) % n
            ELSE (dealer + 1) % n
        revealed == [hand EXCEPT
                        !.drawPile = remainingDeck,
                        !.discardPile = <<topCard>>,
                        !.currentColor = topCard.color,
                        !.direction = direction,
                        !.playerInTurn = playerInTurn]
    IN  IF topCard.type = "DRAW"
        THEN LET drawn == drawCards(revealed.playerInTurn, 2, revealed)
             IN  [drawn EXCEPT !.playerInTurn = getNextPlayer(drawn, FALSE)]
        ELSE revealed

(***************************************************************************)
(* The Hand that uno.ts imports from "./hand" (src/unnamed/part_001): the  *)
(* round as the Game sequences it.                                         *)
(***************************************************************************)
NoCardsLeft == "No cards left in deck"

\* currentHand === undefined
NoInitialHand ==
    [playerHands |-> <<>>, currentPlayer |-> Undefined, topCard |-> UndefinedCard,
     direction |-> 1, drawPile |-> <<>>, discardPile |-> <<>>]

RECURSIVE dealInitialHands(_, _, _, _, _)
\* the loop of dealInitialHands from player i on: <<hands, the remaining deck>>
dealInitialHands(i, playersCount, cardsPerPlayer_, currentDeck, hands) ==
    IF i >= playersCount THEN <<hands, currentDeck>>
    ELSE LET dealt == dealCards(cardsPerPlayer_, currentDeck)
         IN  dealInitialHands(i + 1, playersCount, cardsPerPlayer_, dealt[2],
                              [p \in 0..i |-> IF p = i THEN dealt[1] ELSE hands[p]])

\* the deck createInitialHand has left once the hands are dealt
remainingAfterDeal(playersCount, cardsPerPlayer_, deck, shuffler) ==
    dealInitialHands(0, playersCount, cardsPerPlayer_, shuffleDeck(shuffler, deck),
                     [p \in {} |-> <<>>])

createInitialHandError(playersCount, cardsPerPlayer_, deck, shuffler) ==
    IF Len(remainingAfterDeal(playersCount, cardsPerPlayer_, deck, shuffler)[2]) = 0
    THEN NotEnoughCards ELSE NoError

createInitialHand(playersCount, cardsPerPlayer_, deck, dealer, shuffler) ==
    LET dealt == remainingAfterDeal(playersCount, cardsPerPlayer_, deck, shuffler)
        top == dealCards(1, dealt[2])
    IN  [playerHands |-> dealt[1],
         currentPlayer |-> dealer,
         topCard |-> top[1][1],
         direction |-> 1,
         drawPile |-> top[2],
         discardPile |-> <<top[1][1]>>]

\* getNextPlayer of part_001: one seat on, wrapped to the first or last seat
getNextPlayerOfCurrentHand(h) ==
    LET nextPlayer == h.currentPlayer + h.direction
        playerCount == Cardinality(DOMAIN h.playerHands)
    IN  IF nextPlayer >= playerCount THEN 0
        ELSE IF nextPlayer < 0 THEN playerCount - 1
        ELSE nextPlayer

reverseDirection(h) == [h EXCEPT !.direction = IF h.direction = 1 THEN -1 ELSE 1]

skipTurn(h) ==
    LET intermediateHand == [h EXCEPT !.currentPlayer = getNextPlayerOfCurrentHand(h)]
    IN  [intermediateHand EXCEPT
            !.currentPlayer = getNextPlayerOfCurrentHand(intermediateHand)]

\* draw of part_001 throws when the draw pile and the discards below the top
\* card are exhausted
handDrawCardError(h) ==
    IF Len(h.drawPile) = 0 /\ Len(h.discardPile) <= 1 THEN NoCardsLeft ELSE NoError

\* draw of part_001; shuffler stands for the standard shuffler it recycles with
handDrawCard(h, shuffler) ==
    IF Len(h.drawPile) = 0
    THEN LET newDeck == shuffleDeck(shuffler, Tail(h.discardPile))
         IN  [h EXCEPT
                 !.playerHands = update(h.currentPlayer,
                                        h.playerHands[h.currentPlayer] \o <<newDeck[1]>>,
                                        h.playerHands),
                 !.drawPile = Tail(newDeck),
                 !.discardPile = <<h.discardPile[1]>>]
    ELSE [h EXCEPT
             !.playerHands = update(h.currentPlayer,
                                    h.playerHands[h.currentPlayer] \o <<h.drawPile[1]>>,
                                    h.playerHands),
             !.drawPile = Tail(h.drawPile)]

(***************************************************************************)
(* uno.ts                                                                  *)
(***************************************************************************)
InvalidTargetScore == "Target score must be greater than 0"
TooFewPlayers == "Game requires at least 2 players"
TooManyPlayers == "Maximum 10 players allowed"
NoActiveHandToEnd == "No active hand to end"
NoActiveHand == "No active hand"
NotPlayersTurn == "Not player's turn"
TypeError == "TypeError"

\* cardsPerPlayer of the HandConfig built by startNewHand (uno.ts:102)
NewHandCardsPerPlayer == 7

createGameError(playerCount, targetScore, shuffler, cardsPerPlayer_) ==
    IF targetScore <= 0 THEN InvalidTargetScore
    ELSE IF playerCount < 2 THEN TooFewPlayers
    ELSE IF playerCount > 10 THEN TooManyPlayers
    ELSE createInitialHandError(playerCount, cardsPerPlayer_, createInitialDeck, shuffler)

\* createGame with initialDealer = randomizer(players.length)
createGame(playerCount, targetScore, initialDealer, shuffler, cardsPerPlayer_) ==
    [playerCount |-> playerCount,
     scores |-> [p \in 0..(playerCount - 1) |-> 0],
     targetScore |-> targetScore,
     currentHand |-> createInitialHand(playerCount, cardsPerPlayer_, createInitialDeck,
                                       initialDealer, shuffler),
     winner |-> Undefined,
     dealer |-> initialDealer]

RECURSIVE cardTotal(_)
\* the inner reduce of calculateHandScore (uno.ts:89-93)
cardTotal(cards) ==
    IF Len(cards) = 0 THEN 0
    ELSE cardTotal(SubSeq(cards, 1, Len(cards) - 1))
         + (LET card == cards[Len(cards)]
            IN  IF card.type = "WILD" \/ card.type = "WILD DRAW" THEN 50
                ELSE IF card.type # "NUMBERED" THEN 20
                ELSE card.number)

RECURSIVE handTotal(_, _, _)
\* the outer reduce of calculateHandScore over the first count players
handTotal(h, winner_, count) ==
    IF count = 0 THEN 0
    ELSE handTotal(h, winner_, count - 1)
         + (IF count - 1 = winner_ THEN 0 ELSE cardTotal(h.playerHands[count - 1]))

calculateHandScore(h, winner_) == handTotal(h, winner_, Cardinality(DOMAIN h.playerHands))

startNewHand(state, shuffler) ==
    LET nextDealer == (state.dealer + 1) % state.playerCount
    IN  [state EXCEPT
            !.currentHand = createInitialHand(state.playerCount, NewHandCardsPerPlayer,
                                              createInitialDeck, nextDealer, shuffler)]

endHandError(state) ==
    IF state.currentHand = NoInitialHand THEN NoActiveHandToEnd ELSE NoError

\* endHand; shuffler stands for the standard shuffler startNewHand defaults to
endHand(state, handWinner, shuffler) ==
    LET handScore == calculateHandScore(state.currentHand, handWinner)
        newScores == [state.scores EXCEPT ![handWinner] = @ + handScore]
        hasWinner == newScores[handWinner] >= state.targetScore
    IN  IF hasWinner
        THEN [state EXCEPT
                 !.scores = newScores, !.winner = handWinner, !.currentHand = NoInitialHand]
        ELSE startNewHand([state EXCEPT !.scores = newScores], shuffler)

\* the error play of uno.ts throws; state.currentHand.playerHands[playerIndex]
\* [cardIndex].type is a TypeError when there is no such card
gamePlayError(state, playerIndex, cardIndex) ==
    IF state.currentHand = NoInitialHand THEN NoActiveHand
    ELSE IF state.currentHand.currentPlayer # playerIndex THEN NotPlayersTurn
    ELSE IF cardIndex < 0 \/ cardIndex >= Len(state.currentHand.playerHands[playerIndex])
         THEN TypeError
    ELSE NoError

\* play of uno.ts: the REVERSE test inside the SKIP branch never holds
gamePlay(state, playerIndex, cardIndex) ==
    LET card == state.currentHand.playerHands[playerIndex][cardIndex + 1]
    IN  [state EXCEPT
            !.currentHand =
                IF card.type = "SKIP"
                THEN skipTurn(IF card.type = "REVERSE" THEN reverseDirection(@) ELSE @)
                ELSE @]

gameDrawError(state) ==
    IF state.currentHand = NoInitialHand THEN NoActiveHand
    ELSE handDrawCardError(state.currentHand)

gameDraw(state, shuffler) ==
    [state EXCEPT !.currentHand = handDrawCard(@, shuffler)]

isGameOver(state) == state.winner # Undefined

(***************************************************************************)
(* The inputs explored.                                                    *)
(***************************************************************************)
\* players.length: the valid counts up to MaxPlayers, and one count on each
\* side of the valid range
PlayerCounts == (1..MaxPlayers) \cup {11}

\* dealer: the first and the last seat, where dealer - 1 and dealer + 1 wrap
Dealers(playerCount) == {0, playerCount - 1}

\* the shufflers injected into createHand
Shufflers ==
    {[rot |-> 3, rev |-> TRUE], [rot |-> 72, rev |-> FALSE],
     [rot |-> 82, rev |-> FALSE], [rot |-> 90, rev |-> FALSE]}

\* cardsPerPlayer: short hands, the default, and the deals that leave the
\* draw pile nearly or wholly exhausted; with three players also hands of
\* three cards, which let a forced draw fall on the previous player
CardsPerPlayer(playerCount) ==
    {0, 1, 2, 7, (DeckSize \div playerCount) - 1, DeckSize \div playerCount}
       \cup (IF playerCount = 3 THEN {3} ELSE {})

\* the color argument of play, omitted or given
ColorArgs == Color \cup {NoColor}

\* the card indexes play is tried on
CardIndexes(hand) ==
    IF hand.playerInTurn = Undefined THEN {0}
    ELSE LET len == Len(hand.hands[hand.playerInTurn])
         IN  {i \in 0..len : i < MaxHead \/ i >= len - 1}

\* the colors play is tried with on cardIndex: every color and none for a card
\* without a color; for a card that carries one, and for an index without a
\* card, the code reads only whether a color is given (hand.ts:164-170), so one
\* color and none
ColorsTried(cardIndex, hand) ==
    IF hand.playerInTurn = Undefined THEN {NoColor, colors[1]}
    ELSE LET playerHand == hand.hands[hand.playerInTurn]
         IN  IF cardIndex < Len(playerHand) /\ playerHand[cardIndex + 1].color = NoColor
             THEN ColorArgs
             ELSE {NoColor, colors[1]}

\* the accusers tried: the first and the last seat (no code reads the accuser)
Accusers(hand) == {0, hand.playerCount - 1}

\* targetScore of createGame: an invalid one, one that any hand reaches, and
\* one that takes one hand or several, by the cards dealt
TargetScores == {0, 1, 250}

\* initialDealer = randomizer(players.length): the first and the last seat
InitialDealers(playerCount) == {0, playerCount - 1}

\* the shufflers injected into createGame and startNewHand, and standing for
\* the standard shuffler where the code defaults to it
GameShufflers == {[rot |-> 3, rev |-> TRUE], [rot |-> 82, rev |-> FALSE]}

\* cardsPerPlayer of createGame: the default, a deal that leaves one card to
\* draw, and a deal that leaves no card to reveal
GameCardsPerPlayer(playerCount) ==
    {7, (DeckSize - 2) \div playerCount, DeckSize \div playerCount}

\* the card indexes play of uno.ts is tried on
GameCardIndexes(state) ==
    IF state.currentHand = NoInitialHand THEN {0}
    ELSE LET len == Len(state.currentHand.playerHands[state.currentHand.currentPlayer])
         IN  {i \in 0..len : i < MaxHead \/ i >= len - 1}

(***************************************************************************)
(* State.                                                                  *)
(***************************************************************************)
VARIABLES
    pc,               \* "start", "reveal" (inside createHand), "playing", "thrown", "same"
    hand,             \* the current Hand value
    currentDrawPile,  \* the local of createHand (hand.ts:112)
    cardsPerPlayer,   \* the argument createHand was called with
    last,             \* the last call: operation, arguments, error, Hand before
    steps,            \* number of calls that changed the Hand so far
    game,             \* the current Game value of uno.ts
    gameLast,         \* the last call on the Game: operation, arguments, error, Game before
    handDealers,      \* the dealer of each Hand the Game created, in order
    gameSteps         \* number of calls that changed the Game's current Hand

handVars == <<pc, hand, currentDrawPile, cardsPerPlayer, last, steps>>

gameVars == <<game, gameLast, handDealers, gameSteps>>

vars ==
    <<pc, hand, currentDrawPile, cardsPerPlayer, last, steps,
      game, gameLast, handDealers, gameSteps>>

NoHand == newHand(0, 0, [rot |-> 0, rev |-> FALSE])

\* no Game yet
NoGame ==
    [playerCount |-> 0, scores |-> <<>>, targetScore |-> 0, currentHand |-> NoInitialHand,
     winner |-> Undefined, dealer |-> 0]

GameCall(op, err, playerIndex, cardIndex, pre) ==
    [op |-> op, err |-> err, playerIndex |-> playerIndex, cardIndex |-> cardIndex, pre |-> pre]

Call(op, err, cardIndex, color, playerIndex, accuser, pre) ==
    [op |-> op, err |-> err, cardIndex |-> cardIndex, color |-> color,
     playerIndex |-> playerIndex, accuser |-> accuser, pre |-> pre]

Init ==
    /\ pc = "start"
    /\ hand = NoHand
    /\ currentDrawPile = <<>>
    /\ cardsPerPlayer = 0
    /\ last = Call("none", NoError, -1, NoColor, -1, -1, NoHand)
    /\ steps = 0
    /\ game = NoGame
    /\ gameLast = GameCall("none", NoError, -1, -1, NoGame)
    /\ handDealers = <<>>
    /\ gameSteps = 0

\* createHand up to the dealing of the initial cards (hand.ts:86-112)
CreateHand(playerCount, dealer, shuffler, cpp) ==
    /\ pc = "start"
    /\ cardsPerPlayer' = cpp
    /\ steps' = steps
    /\ UNCHANGED gameVars
    /\ IF playerCount < 2 \/ playerCount > 10
       THEN /\ pc' = "thrown"
            /\ last' = Call("createHand", InvalidPlayerCount, -1, NoColor, -1, -1, NoHand)
            /\ UNCHANGED <<hand, currentDrawPile>>
       ELSE LET dealt == dealInitialCards(0, cpp, newHand(playerCount, dealer, shuffler))
            IN  /\ pc' = "reveal"
                /\ hand' = dealt
                /\ currentDrawPile' = dealt.drawPile
                /\ last' = Call("createHand", NoError, -1, NoColor, -1, -1, NoHand)

\* one iteration of the loop at hand.ts:113-115
Reshuffle ==
    /\ pc = "reveal"
    /\ topIsWild(currentDrawPile)
    /\ currentDrawPile' = shuffleDeck(hand.shuffler, currentDrawPile)
    /\ UNCHANGED <<pc, hand, cardsPerPlayer, last, steps>>
    /\ UNCHANGED gameVars

\* createHand from the exit of the loop on (hand.ts:117-153)
Reveal ==
    /\ pc = "reveal"
    /\ ~topIsWild(currentDrawPile)
    /\ LET dealt == dealCards(1, currentDrawPile)
       IN  IF Len(dealt[1]) = 0
           THEN /\ pc' = "thrown"
                /\ last' = Call("createHand", NotEnoughCards, -1, NoColor, -1, -1, NoHand)
                /\ UNCHANGED hand
           ELSE /\ pc' = "playing"
                /\ hand' = revealTopCard(dealt[1][1], dealt[2], hand)
                /\ last' = Call("createHand", NoError, -1, NoColor, -1, -1, NoHand)
    /\ UNCHANGED <<currentDrawPile, cardsPerPlayer, steps>>
    /\ UNCHANGED gameVars

\* A call that throws leaves the Hand as it was and ends the run: the error
\* propagates to the caller (spec section 7).  A call that returns the very
\* Hand it was given is explored as the last call of its run as well: the
\* calls that can follow it are the calls on the Hand before it, which are
\* explored from the state before it.
Returned(err) ==
    IF err # NoError THEN pc' = "thrown" /\ steps' = steps
    ELSE IF hand' = hand THEN pc' = "same" /\ steps' = steps
    ELSE steps < MaxSteps /\ pc' = "playing" /\ steps' = steps + 1

Play(cardIndex, color) ==
    /\ pc = "playing"
    /\ LET err == playError(cardIndex, color, hand)
       IN  /\ last' = Call("play", err, cardIndex, color, -1, -1, hand)
           /\ hand' = IF err = NoError THEN playHand(cardIndex, color, hand) ELSE hand
           /\ Returned(err)
    /\ UNCHANGED <<currentDrawPile, cardsPerPlayer>>
    /\ UNCHANGED gameVars

Draw ==
    /\ pc = "playing"
    /\ LET err == drawError(hand)
       IN  /\ last' = Call("draw", err, -1, NoColor, -1, -1, hand)
           /\ hand' = IF err = NoError THEN drawHand(hand) ELSE hand
           /\ Returned(err)
    /\ UNCHANGED <<currentDrawPile, cardsPerPlayer>>
    /\ UNCHANGED gameVars

SayUno(playerIndex) ==
    /\ pc = "playing"
    /\ LET err == sayUnoError(playerIndex, hand)
       IN  /\ last' = Call("sayUno", err, -1, NoColor, playerIndex, -1, hand)
           /\ hand' = IF err = NoError THEN sayUno(playerIndex, hand) ELSE hand
           /\ Returned(err)
    /\ UNCHANGED <<currentDrawPile, cardsPerPlayer>>
    /\ UNCHANGED gameVars

CatchUnoFailure(accuser, accused) ==
    /\ pc = "playing"
    /\ LET err == catchUnoFailureError(accused, hand)
       IN  /\ last' = Call("catchUnoFailure", err, -1, NoColor, accused, accuser, hand)
           /\ hand' = IF err = NoError THEN catchUnoFailure(accuser, accused, hand) ELSE hand
           /\ Returned(err)
    /\ UNCHANGED <<currentDrawPile, cardsPerPlayer>>
    /\ UNCHANGED gameVars

Next ==
    \/ \E n \in PlayerCounts, s \in Shufflers :
         \E dealer \in Dealers(n), cpp \in CardsPerPlayer(n) : CreateHand(n, dealer, s, cpp)
    \/ Reshuffle
    \/ Reveal
    \/ /\ pc = "playing"
       /\ \E cardIndex \in CardIndexes(hand) :
            \E color \in ColorsTried(cardIndex, hand) : Play(cardIndex, color)
    \/ Draw
    \/ \E playerIndex \in (-1)..hand.playerCount : SayUno(playerIndex)
    \/ \E accuser \in Accusers(hand), accused \in (-1)..hand.playerCount :
         CatchUnoFailure(accuser, accused)

Spec == Init /\ [][Next]_vars

(***************************************************************************)
(* Hands whose draw pile has run out.  A Hand with an empty draw pile lies  *)
(* about a hundred calls after createHand, beyond MaxSteps: this            *)
(* specification reaches it by the calls of draw that lead there (each      *)
(* takes a card out of the piles, so there are at most DeckSize of them)    *)
(* and explores from there the plays that return, every card of the player  *)
(* in turn being tried, at most MaxSteps of them.                           *)
(***************************************************************************)
\* draw, called before any play
DrawOut ==
    /\ pc = "playing"
    /\ steps = 0
    /\ drawError(hand) = NoError
    /\ drawHand(hand) # hand
    /\ hand' = drawHand(hand)
    /\ last' = Call("draw", NoError, -1, NoColor, -1, -1, hand)
    /\ pc' = "playing"
    /\ UNCHANGED <<currentDrawPile, cardsPerPlayer, steps>>
    /\ UNCHANGED gameVars

\* play of a card that play accepts, called once the draw pile is empty
LatePlay(cardIndex, color) ==
    /\ pc = "playing"
    /\ Len(hand.drawPile) = 0
    /\ playError(cardIndex, color, hand) = NoError
    /\ Play(cardIndex, color)

\* the Hands drawn out: two players with short hands, one of whom can be
\* down to one card within MaxSteps plays after the draw pile has run out
ExhaustionPlayerCounts == {2}
ExhaustionCardsPerPlayer == {1, 2}

ExhaustionNext ==
    \/ \E n \in ExhaustionPlayerCounts, s \in Shufflers :
         \E dealer \in Dealers(n), cpp \in ExhaustionCardsPerPlayer :
            CreateHand(n, dealer, s, cpp)
    \/ Reshuffle
    \/ Reveal
    \/ DrawOut
    \/ /\ pc = "playing"
       /\ hand.playerInTurn # Undefined
       /\ \E cardIndex \in 0..(Len(hand.hands[hand.playerInTurn]) - 1) :
            \E color \in ColorsTried(cardIndex, hand) : LatePlay(cardIndex, color)

ExhaustionSpec == Init /\ [][ExhaustionNext]_vars

(***************************************************************************)
(* The Game of uno.ts as a state machine: createGame, then endHand,        *)
(* startNewHand, play and draw on the Game it returned.  A call that       *)
(* throws ends the run.                                                    *)
(***************************************************************************)
\* a Game value exists and the last call returned another Game than it was
\* given: as for the Hand, a call that throws or returns the Game unchanged is
\* explored as the last call of its run
GameRuns == gameLast.op # "none" /\ gameLast.err = NoError /\ game # gameLast.pre

CreateGame(playerCount, targetScore, initialDealer, shuffler, cpp) ==
    /\ gameLast.op = "none"
    /\ LET err == createGameError(playerCount, targetScore, shuffler, cpp)
       IN  /\ gameLast' = GameCall("createGame", err, -1, -1, game)
           /\ game' = IF err = NoError
                       THEN createGame(playerCount, targetScore, initialDealer, shuffler, cpp)
                       ELSE game
           /\ handDealers' = IF err = NoError THEN <<game'.currentHand.currentPlayer>>
                              ELSE handDealers
    /\ gameSteps' = 0
    /\ UNCHANGED handVars

EndHand(handWinner, shuffler) ==
    /\ GameRuns
    /\ Len(handDealers) < MaxHands
    /\ LET err == endHandError(game)
       IN  /\ gameLast' = GameCall("endHand", err, handWinner, -1, game)
           /\ game' = IF err = NoError THEN endHand(game, handWinner, shuffler) ELSE game
           /\ handDealers' = IF err = NoError /\ game'.currentHand # NoInitialHand
                              THEN Append(handDealers, game'.currentHand.currentPlayer)
                              ELSE handDealers
    /\ gameSteps' = 0
    /\ UNCHANGED handVars

StartNewHand(shuffler) ==
    /\ GameRuns
    /\ Len(handDealers) < MaxHands
    /\ gameLast' = GameCall("startNewHand", NoError, -1, -1, game)
    /\ game' = startNewHand(game, shuffler)
    /\ handDealers' = Append(handDealers, game'.currentHand.currentPlayer)
    /\ gameSteps' = 0
    /\ UNCHANGED handVars

GamePlay(playerIndex, cardIndex) ==
    /\ GameRuns
    /\ LET err == gamePlayError(game, playerIndex, cardIndex)
       IN  /\ gameLast' = GameCall("play", err, playerIndex, cardIndex, game)
           /\ game' = IF err = NoError THEN gamePlay(game, playerIndex, cardIndex) ELSE game
    /\ IF game' = game THEN gameSteps' = gameSteps
       ELSE gameSteps < MaxGameSteps /\ gameSteps' = gameSteps + 1
    /\ UNCHANGED <<handDealers, handVars>>

GameDraw(shuffler) ==
    /\ GameRuns
    /\ LET err == gameDrawError(game)
       IN  /\ gameLast' = GameCall("draw", err, -1, -1, game)
           /\ game' = IF err = NoError THEN gameDraw(game, shuffler) ELSE game
    /\ IF game' = game THEN gameSteps' = gameSteps
       ELSE gameSteps < MaxGameSteps /\ gameSteps' = gameSteps + 1
    /\ UNCHANGED <<handDealers, handVars>>

GameNext ==
    \/ \E n \in PlayerCounts, t \in TargetScores, s \in GameShufflers :
         \E initialDealer \in InitialDealers(n), cpp \in GameCardsPerPlayer(n) :
            CreateGame(n, t, initialDealer, s, cpp)
    \/ \E handWinner \in 0..(game.playerCount - 1), s \in GameShufflers :
         EndHand(handWinner, s)
    \/ \E s \in GameShufflers : StartNewHand(s)
    \/ /\ GameRuns
       /\ \E playerIndex \in 0..(game.playerCount - 1), cardIndex \in GameCardIndexes(game) :
            GamePlay(playerIndex, cardIndex)
    \/ \E s \in GameShufflers : GameDraw(s)

GameSpec == Init /\ [][GameNext]_vars


(***************************************************************************)
(* Vocabulary of the properties.                                           *)
(***************************************************************************)
\* hand is a Hand value returned by createHand or by a later call
HandExists == pc \in {"playing", "same"} \/ (pc = "thrown" /\ last.op # "createHand")

\* the last call returned (threw nothing)
Succeeded(op) == HandExists /\ last.op = op /\ last.err = NoError

CardCount(h) ==
    LET RECURSIVE held(_)
        held(i) == IF i >= h.playerCount THEN 0 ELSE Len(h.hands[i]) + held(i + 1)
    IN  held(0) + Len(h.drawPile) + Len(h.discardPile)

\* the acting player, direction and card of the last play
Actor == last.pre.playerInTurn
ActorDirection == last.pre.direction
PlayedCard == last.pre.hands[Actor][last.cardIndex + 1]

\* the last call was a play that returned and did not end the round
NonTerminalPlay == Succeeded("play") /\ hand.playerInTurn # Undefined

\* seat p advanced by k seats, wrapped
Seat(p, k, n) == (p + k) % n

Min(a, b) == IF a < b THEN a ELSE b

\* cards player p holds more in h than in pre
Received(p, pre, h) == Len(h.hands[p]) - Len(pre.hands[p])

\* what a recycling draw of amount cards can hand out from h
Available(amount, h) == Min(amount, Len(h.drawPile) + Len(h.discardPile) - 1)

(***************************************************************************)
(* C1                                                                      *)
(***************************************************************************)
\* C1: in every Hand reachable from createHand by play, draw, sayUno and
\* catchUnoFailure, the cards held by the players plus the draw pile plus the
\* discard pile number 108, the size of the deck, and no call changes the
\* total.
C1_CardsConserved ==
    /\ HandExists => CardCount(hand) = 108
    /\ (HandExists /\ last.op # "createHand") => CardCount(hand) = CardCount(last.pre)

\* a call has recycled a discard pile of several cards into the draw pile
C1_Witness ==
    /\ HandExists
    /\ last.op \in {"play", "draw", "catchUnoFailure"}
    /\ last.err = NoError
    /\ Len(last.pre.discardPile) >= 3
    /\ Len(hand.discardPile) = 1

(***************************************************************************)
(* C2                                                                      *)
(***************************************************************************)
\* C2: in every reachable Hand, playerInTurn is absent iff hasEnded(hand).
C2_TurnAbsentIffEnded ==
    HandExists => ((hand.playerInTurn = Undefined) <=> hasEnded(hand))

(***************************************************************************)
(* C3                                                                      *)
(***************************************************************************)
\* the existing cards of the player in turn that fail the legality check
IllegalIndexes(h) ==
    IF h.playerInTurn = Undefined THEN {}
    ELSE {i \in 0..(Len(h.hands[h.playerInTurn]) - 1) : ~canPlay(i, h)}

\* C3 as claimed: play on an existing card of the player in turn that fails
\* canPlay fails with IllegalPlay, and the Hand is as before.
C3_IllegalPlayRejected ==
    /\ pc = "playing" =>
         \A i \in IllegalIndexes(hand), c \in ColorArgs : playError(i, c, hand) = IllegalPlay
    /\ (HandExists /\ last.op = "play" /\ last.cardIndex \in IllegalIndexes(last.pre)) =>
         (last.err = IllegalPlay /\ hand = last.pre)

\* C3 amended: play on an existing card of the player in turn that fails
\* canPlay never succeeds and leaves the Hand (the discard pile included) as
\* it was; it fails with IllegalColorAssignment when a color is supplied for a
\* card that carries a color, and with IllegalPlay otherwise.
C3_IllegalPlayFails ==
    /\ pc = "playing" =>
         \A i \in IllegalIndexes(hand), c \in ColorArgs :
            playError(i, c, hand) =
               IF hand.hands[hand.playerInTurn][i + 1].color # NoColor /\ c # NoColor
               THEN ColorOnColoredCard ELSE IllegalPlay
    /\ (HandExists /\ last.op = "play" /\ last.cardIndex \in IllegalIndexes(last.pre)) =>
         /\ last.err \in {IllegalPlay, ColorOnColoredCard}
         /\ last.err = IllegalPlay <=> (PlayedCard.color = NoColor \/ last.color = NoColor)
         /\ hand = last.pre

\* play was called without a color on a card the player in turn holds and may
\* not play, and threw IllegalPlay
C3_Witness ==
    /\ HandExists
    /\ last.op = "play"
    /\ last.cardIndex \in IllegalIndexes(last.pre)
    /\ last.err = IllegalPlay
    /\ hand.discardPile = last.pre.discardPile

(***************************************************************************)
(* C4                                                                      *)
(***************************************************************************)
\* C4: after a non-terminal play by p with direction d among n players,
\* playerInTurn is (p + d) mod n for a NUMBERED or WILD card and
\* (p + 2d) mod n for a SKIP card, and direction is still d.
C4_NextPlayer ==
    NonTerminalPlay =>
        /\ PlayedCard.type \in {"NUMBERED", "WILD"} =>
             /\ hand.playerInTurn = Seat(Actor, ActorDirection, hand.playerCount)
             /\ hand.direction = ActorDirection
        /\ PlayedCard.type = "SKIP" =>
             /\ hand.playerInTurn = Seat(Actor, 2 * ActorDirection, hand.playerCount)
             /\ hand.direction = ActorDirection

\* a SKIP was played in a two-player hand and the turn wrapped past the end
C4_Witness ==
    /\ NonTerminalPlay
    /\ PlayedCard.type = "SKIP"
    /\ hand.playerCount = 2
    /\ Actor + 2 * ActorDirection >= hand.playerCount

(***************************************************************************)
(* C5                                                                      *)
(***************************************************************************)
\* C5: a non-terminal play of REVERSE leaves the same player in turn and the
\* direction unchanged among two players; among more it negates the direction
\* and puts in turn the actor advanced one seat in the new direction.
C5_Reverse ==
    (NonTerminalPlay /\ PlayedCard.type = "REVERSE") =>
        IF hand.playerCount = 2
        THEN hand.playerInTurn = Actor /\ hand.direction = ActorDirection
        ELSE /\ hand.direction = -ActorDirection
             /\ hand.playerInTurn = Seat(Actor, -ActorDirection, hand.playerCount)

\* a REVERSE was played among more than two players
C5_Witness ==
    /\ NonTerminalPlay
    /\ PlayedCard.type = "REVERSE"
    /\ hand.playerCount > 2

(***************************************************************************)
(* C6                                                                      *)
(***************************************************************************)
\* the Hand of the last play with the card placed and nothing drawn yet
Placed ==
    [last.pre EXCEPT !.discardPile = <<PlayedCard>> \o last.pre.discardPile]

\* C6: a play of DRAW (WILD DRAW) by p makes the player one seat ahead of p,
\* and nobody else, receive the 2 (4) cards of a recycling draw, and a
\* non-terminal such play puts (p + 2d) mod n in turn.
C6_ForcedDraw ==
    (Succeeded("play") /\ PlayedCard.type \in {"DRAW", "WILD DRAW"}) =>
        LET n == hand.playerCount
            target == Seat(Actor, ActorDirection, n)
        IN  /\ Received(target, last.pre, hand) = Available(forcedDraw(PlayedCard), Placed)
            /\ \A q \in 0..(n - 1) :
                  (q # target /\ q # Actor) => hand.hands[q] = last.pre.hands[q]
            /\ Received(Actor, last.pre, hand) = -1
            /\ hand.playerInTurn # Undefined =>
                  hand.playerInTurn = Seat(Actor, 2 * ActorDirection, n)

(***************************************************************************)
(* C7                                                                      *)
(***************************************************************************)
\* C7: a play that empties the actor's hand returns a Hand without a player
\* in turn, with previousPlayer the actor and the accusation window closed;
\* a play that leaves the actor cards returns a Hand with a player in turn,
\* previousPlayer the actor and the window open.
C7_Termination ==
    Succeeded("play") =>
        /\ hand.previousPlayer = Actor
        /\ IF Len(hand.hands[Actor]) = 0
           THEN hand.playerInTurn = Undefined /\ ~hand.isAccusationWindowOpen
           ELSE /\ hand.playerInTurn \in 0..(hand.playerCount - 1)
                /\ hand.isAccusationWindowOpen

\* the actor played the last card held
C7_Witness ==
    /\ Succeeded("play")
    /\ Len(hand.hands[Actor]) = 0
    /\ Len(last.pre.hands[Actor]) = 1

(***************************************************************************)
(* C8                                                                      *)
(***************************************************************************)
\* C8: after a non-terminal play, unoCalls is false for every player but the
\* new player in turn and the actor (the new previousPlayer), and those two
\* keep the value they had.
C8_UnoCallsKeptForTurnAndActor ==
    NonTerminalPlay =>
        \A i \in 0..(hand.playerCount - 1) :
            hand.unoCalls[i] =
                IF i = hand.playerInTurn \/ i = Actor THEN last.pre.unoCalls[i] ELSE FALSE

\* what hand.ts:235-237 does instead: the entries kept are those of the actor
\* and of the player who was previousPlayer before the play
C8_UnoCallsKeptForActorAndPrevious ==
    NonTerminalPlay =>
        \A i \in 0..(hand.playerCount - 1) :
            hand.unoCalls[i] =
                IF i = Actor \/ i = last.pre.previousPlayer
                THEN last.pre.unoCalls[i] ELSE FALSE

\* a non-terminal play reset the call of the player now in turn and kept the
\* call of the actor
C8_TurnEntryReset ==
    /\ NonTerminalPlay
    /\ hand.playerInTurn # Actor
    /\ last.pre.unoCalls[hand.playerInTurn]
    /\ ~hand.unoCalls[hand.playerInTurn]
    /\ hand.unoCalls[Actor]

(***************************************************************************)
(* C9                                                                      *)
(***************************************************************************)
\* the card the last draw gave the actor is playable (false when it gave none)
DrawnCardPlayable ==
    /\ Received(Actor, last.pre, hand) = 1
    /\ canPlay(Len(hand.hands[Actor]) - 1, [hand EXCEPT !.playerInTurn = Actor])

\* C9: after draw on a Hand that has not ended the turn stays with the drawing
\* player iff the card just drawn is playable, and otherwise advances one seat
\* in direction, whatever the other cards of that player.
C9_TurnAfterDraw ==
    (Succeeded("draw") /\ ~hasEnded(last.pre)) =>
        IF DrawnCardPlayable
        THEN hand.playerInTurn = Actor
        ELSE hand.playerInTurn = Seat(Actor, ActorDirection, hand.playerCount)

(***************************************************************************)
(* C10                                                                     *)
(***************************************************************************)
\* C10: every draw of N cards (draw: 1, DRAW: 2, WILD DRAW: 4, the UNO
\* penalty: 4) adds min(N, |drawPile| + |discardPile| - 1) cards to the hand
\* of the player who draws.
C10_DrawAmount ==
    /\ Succeeded("draw") =>
         Received(Actor, last.pre, hand) = Available(1, last.pre)
    /\ (Succeeded("play") /\ forcedDraw(PlayedCard) > 0) =>
         Received(Seat(Actor, ActorDirection, hand.playerCount), last.pre, hand)
            = Available(forcedDraw(PlayedCard), Placed)
    /\ (Succeeded("catchUnoFailure") /\ hand # last.pre) =>
         Received(last.playerIndex, last.pre, hand) = Available(4, last.pre)

(***************************************************************************)
(* C11                                                                     *)
(***************************************************************************)
\* the last call drew cards through drawCards
Drew ==
    \/ Succeeded("draw")
    \/ Succeeded("play") /\ forcedDraw(PlayedCard) > 0
    \/ Succeeded("catchUnoFailure") /\ hand # last.pre

\* the card the last play put on the discard pile
PlacedCard ==
    IF isWild(PlayedCard) THEN [PlayedCard EXCEPT !.color = last.color] ELSE PlayedCard

\* the discard pile, the current color, the number of cards asked for and the
\* receiving player of the draw made by the last call
DrawDiscard ==
    IF last.op = "play" THEN <<PlacedCard>> \o last.pre.discardPile ELSE last.pre.discardPile
DrawColor ==
    IF last.op = "play" THEN PlacedCard.color ELSE last.pre.currentColor
DrawAmount ==
    IF last.op = "play" THEN forcedDraw(PlayedCard) ELSE IF last.op = "draw" THEN 1 ELSE 4
DrawReceiver ==
    IF last.op = "play" THEN Seat(Actor, ActorDirection, hand.playerCount)
    ELSE IF last.op = "draw" THEN Actor
    ELSE last.playerIndex

\* the cards the receiver of the last draw was given, in order
DrawnCards ==
    SubSeq(hand.hands[DrawReceiver],
           Len(last.pre.hands[DrawReceiver]) + 1, Len(hand.hands[DrawReceiver]))

\* the draw pile ran empty during the last draw
RanEmpty == Len(last.pre.drawPile) <= DrawAmount

\* C11: when the draw pile becomes empty during a draw, the discard pile
\* collapses to its previous top card and the cards below it, permuted by the
\* Hand's shuffler, become the new draw pile (from which the draw goes on);
\* otherwise the discard pile is as before; the top of the discard pile and
\* currentColor are the same before and after the draw.
C11_RecyclingFrame ==
    Drew =>
        /\ hand.discardPile[1] = DrawDiscard[1]
        /\ hand.currentColor = DrawColor
        /\ IF RanEmpty
           THEN /\ hand.discardPile = <<DrawDiscard[1]>>
                /\ DrawnCards \o hand.drawPile =
                      last.pre.drawPile \o shuffleDeck(hand.shuffler, Tail(DrawDiscard))
           ELSE /\ hand.discardPile = DrawDiscard
                /\ DrawnCards \o hand.drawPile = last.pre.drawPile

\* a draw emptied the draw pile and recycled at least two discards
C11_Witness ==
    /\ Drew
    /\ RanEmpty
    /\ Len(DrawDiscard) >= 3
    /\ Len(hand.drawPile) + Len(DrawnCards) >= Len(last.pre.drawPile) + 2

(***************************************************************************)
(* C12                                                                     *)
(***************************************************************************)
\* C12: the accusation window is open only when the most recent play or draw
\* was a non-terminal play by previousPlayer: createHand returns it closed, a
\* play or draw leaves it open only if it is a non-terminal play by the new
\* previousPlayer, every other call neither opens it nor changes
\* previousPlayer; after a draw that returned it is closed and
\* catchUnoFailure has no effect.
C12_WindowOnlyAfterPlay ==
    HandExists =>
        /\ last.op = "createHand" => ~hand.isAccusationWindowOpen
        /\ (last.op \in {"play", "draw"} /\ last.err = NoError /\ hand.isAccusationWindowOpen) =>
              /\ last.op = "play"
              /\ hand.playerInTurn # Undefined
              /\ hand.previousPlayer = Actor
        /\ ((last.op \in {"sayUno", "catchUnoFailure"} \/ last.err # NoError)
               /\ hand.isAccusationWindowOpen) =>
              /\ last.pre.isAccusationWindowOpen
              /\ hand.previousPlayer = last.pre.previousPlayer
        /\ Succeeded("draw") =>
              /\ ~hand.isAccusationWindowOpen
              /\ \A accuser \in Accusers(hand), accused \in 0..(hand.playerCount - 1) :
                    catchUnoFailure(accuser, accused, hand) = hand

(***************************************************************************)
(* C13                                                                     *)
(***************************************************************************)
\* the accusation condition of the spec on Hand h for player accused
MissedUno(accused, h) ==
    /\ h.isAccusationWindowOpen
    /\ accused = h.previousPlayer
    /\ Len(h.hands[accused]) = 1
    /\ ~h.unoCalls[accused]

\* C13: for an accused in [0, playerCount) checkUnoFailure is true iff the
\* window is open, the accused is previousPlayer, holds exactly one card and
\* has no unoCalls entry set; for any other accused it fails with
\* PlayerIndexOutOfBounds.  catchUnoFailure, which applies it, throws and
\* penalises accordingly.
C13_CheckUnoFailure ==
    /\ pc = "playing" =>
          \A accuser \in Accusers(hand), accused \in (-1)..hand.playerCount :
             IF accused \in 0..(hand.playerCount - 1)
             THEN /\ checkUnoFailureError(accused, hand) = NoError
                  /\ checkUnoFailure(accuser, accused, hand) <=> MissedUno(accused, hand)
             ELSE checkUnoFailureError(accused, hand) = PlayerIndexOutOfBounds
    /\ (HandExists /\ last.op = "catchUnoFailure") =>
          IF last.playerIndex \in 0..(hand.playerCount - 1)
          THEN /\ last.err = NoError
               /\ hand # last.pre <=> MissedUno(last.playerIndex, last.pre)
          ELSE last.err = PlayerIndexOutOfBounds

\* a player went down to one card without saying UNO and the check is true
\* for that player, and false for the other players
C13_Witness ==
    /\ pc = "playing"
    /\ hand.previousPlayer # Null
    /\ checkUnoFailure(0, hand.previousPlayer, hand)
    /\ \A q \in 0..(hand.playerCount - 1) :
          q # hand.previousPlayer => ~checkUnoFailure(0, q, hand)

(***************************************************************************)
(* C14                                                                     *)
(***************************************************************************)
\* C14: when checkUnoFailure is true, catchUnoFailure gives the accused 4
\* cards and closes the accusation window; a player who has just gone down to
\* one card with no unoCalls entry set is so penalised by an accusation made
\* before any further play or draw.
C14_Penalty ==
    /\ (Succeeded("catchUnoFailure")
          /\ checkUnoFailure(last.accuser, last.playerIndex, last.pre)) =>
          /\ Received(last.playerIndex, last.pre, hand) = 4
          /\ ~hand.isAccusationWindowOpen
    /\ (NonTerminalPlay /\ Len(hand.hands[Actor]) = 1 /\ ~hand.unoCalls[Actor]) =>
          \A accuser \in Accusers(hand) :
             /\ Len(catchUnoFailure(accuser, Actor, hand).hands[Actor]) = 5
             /\ ~catchUnoFailure(accuser, Actor, hand).isAccusationWindowOpen

\* the penalty is 4 cards when the draw pile holds that many
C14_PenaltyFromFullPile ==
    /\ (Succeeded("catchUnoFailure")
          /\ checkUnoFailure(last.accuser, last.playerIndex, last.pre)
          /\ Len(last.pre.drawPile) >= 4) =>
          /\ Received(last.playerIndex, last.pre, hand) = 4
          /\ ~hand.isAccusationWindowOpen
    /\ (NonTerminalPlay /\ Len(hand.hands[Actor]) = 1 /\ ~hand.unoCalls[Actor]
          /\ Len(hand.drawPile) >= 4) =>
          \A accuser \in Accusers(hand) :
             /\ Len(catchUnoFailure(accuser, Actor, hand).hands[Actor]) = 5
             /\ ~catchUnoFailure(accuser, Actor, hand).isAccusationWindowOpen

\* the penalty is what a recycling draw of 4 cards has available (spec
\* section 4.4)
C14_PenaltyAsAvailable ==
    (NonTerminalPlay /\ Len(hand.hands[Actor]) = 1 /\ ~hand.unoCalls[Actor]) =>
        \A accuser \in Accusers(hand) :
           Received(Actor, hand, catchUnoFailure(accuser, Actor, hand)) = Available(4, hand)

\* an accusation against a player holding one card succeeded
C14_Witness ==
    /\ Succeeded("catchUnoFailure")
    /\ Len(last.pre.hands[last.playerIndex]) = 1
    /\ Len(hand.hands[last.playerIndex]) = 5
    /\ last.pre.isAccusationWindowOpen

(***************************************************************************)
(* C15                                                                     *)
(***************************************************************************)
\* C15: catchUnoFailure returns the Hand it was given whenever
\* checkUnoFailure is false, and the same call made again right after a
\* successful accusation returns the Hand of the first call.
C15_FalseAccusationNoOp ==
    /\ pc = "playing" =>
          \A accuser \in Accusers(hand), accused \in 0..(hand.playerCount - 1) :
             ~checkUnoFailure(accuser, accused, hand) =>
                catchUnoFailure(accuser, accused, hand) = hand
    /\ (Succeeded("catchUnoFailure")
          /\ ~checkUnoFailure(last.accuser, last.playerIndex, last.pre)) =>
          hand = last.pre
    /\ (Succeeded("catchUnoFailure") /\ hand # last.pre) =>
          catchUnoFailure(last.accuser, last.playerIndex, hand) = hand

\* an accusation was repeated against the player just penalised and returned
\* the Hand unchanged
C15_Witness ==
    /\ Succeeded("catchUnoFailure")
    /\ last.playerIndex = last.pre.previousPlayer
    /\ ~last.pre.isAccusationWindowOpen
    /\ Len(last.pre.hands[last.playerIndex]) = 5
    /\ hand = last.pre

(***************************************************************************)
(* C16                                                                     *)
(***************************************************************************)
\* C16: sayUno fails with GameEnded on an ended Hand and with
\* PlayerIndexOutOfBounds for an index outside [0, playerCount) on a Hand that
\* has not ended; otherwise it returns the Hand unchanged when the player
\* holds more than 2 cards, and else the Hand with unoCalls[playerIndex] true
\* and nothing else changed.
C16_SayUno ==
    (HandExists /\ last.op = "sayUno") =>
        IF hasEnded(last.pre)
        THEN last.err = GameEnded /\ hand = last.pre
        ELSE IF last.playerIndex \notin 0..(last.pre.playerCount - 1)
        THEN last.err = PlayerIndexOutOfBounds /\ hand = last.pre
        ELSE /\ last.err = NoError
             /\ IF Len(last.pre.hands[last.playerIndex]) > 2
                THEN hand = last.pre
                ELSE hand = [last.pre EXCEPT !.unoCalls[last.playerIndex] = TRUE]

\* a player holding two cards said UNO and the entry was set
C16_Witness ==
    /\ Succeeded("sayUno")
    /\ Len(last.pre.hands[last.playerIndex]) = 2
    /\ ~last.pre.unoCalls[last.playerIndex]
    /\ hand.unoCalls[last.playerIndex]

(***************************************************************************)
(* C17                                                                     *)
(***************************************************************************)
\* the cards of the player in turn of Hand h
TurnHand(h) == h.hands[h.playerInTurn]

\* C17: in a Hand that has not ended, a WILD DRAW card of the player in turn
\* is playable iff that player holds no card whose color is currentColor.
C17_WildDrawLegality ==
    (pc = "playing" /\ ~hasEnded(hand)) =>
        \A i \in 0..(Len(TurnHand(hand)) - 1) :
           TurnHand(hand)[i + 1].type = "WILD DRAW" =>
              (canPlay(i, hand) <=>
                 \A k \in 1..Len(TurnHand(hand)) :
                    TurnHand(hand)[k].color # hand.currentColor)

(***************************************************************************)
(* C18                                                                     *)
(***************************************************************************)
\* C18: for a card of the player in turn of a Hand that has not ended, a WILD
\* is playable; a SKIP, REVERSE or DRAW card is playable iff the top of the
\* discard pile has its type or its color is currentColor; a NUMBERED card is
\* playable iff its color is currentColor or the top of the discard pile is a
\* NUMBERED card with its number.  canPlay is false for an index without a
\* card and on an ended Hand.
C18_Legality ==
    pc = "playing" =>
        IF hasEnded(hand)
        THEN \A i \in (-1)..MaxHead : ~canPlay(i, hand)
        ELSE /\ ~canPlay(-1, hand)
             /\ ~canPlay(Len(TurnHand(hand)), hand)
             /\ \A i \in 0..(Len(TurnHand(hand)) - 1) :
                   LET card == TurnHand(hand)[i + 1]
                       top == hand.discardPile[1]
                   IN  /\ card.type = "WILD" => canPlay(i, hand)
                       /\ card.type \in {"SKIP", "REVERSE", "DRAW"} =>
                             (canPlay(i, hand) <=>
                                (top.type = card.type \/ card.color = hand.currentColor))
                       /\ card.type = "NUMBERED" =>
                             (canPlay(i, hand) <=>
                                \/ card.color = hand.currentColor
                                \/ top.type = "NUMBERED" /\ top.number = card.number)

\* the player in turn holds a card of another color than currentColor that is
\* playable by its number or its type alone, and a card that is not playable
C18_Witness ==
    /\ pc = "playing"
    /\ ~hasEnded(hand)
    /\ \E i \in 0..(Len(TurnHand(hand)) - 1) :
          /\ TurnHand(hand)[i + 1].type \in {"NUMBERED", "SKIP", "REVERSE", "DRAW"}
          /\ TurnHand(hand)[i + 1].color # hand.currentColor
          /\ canPlay(i, hand)
    /\ \E i \in 0..(Len(TurnHand(hand)) - 1) : ~canPlay(i, hand)

(***************************************************************************)
(* C19                                                                     *)
(***************************************************************************)
\* play was called on a Hand that has not ended with the index of a card the
\* player in turn holds
PlayOnCard ==
    /\ HandExists
    /\ last.op = "play"
    /\ ~hasEnded(last.pre)
    /\ last.cardIndex \in 0..(Len(TurnHand(last.pre)) - 1)

\* C19: play with a valid card index on a Hand that has not ended fails with
\* IllegalColorAssignment whenever a color is supplied for a card that is not
\* WILD or WILD DRAW, and whenever the color is omitted for a WILD or WILD
\* DRAW card.
C19_ColorAssignment ==
    PlayOnCard =>
        /\ (~isWild(PlayedCard) /\ last.color # NoColor) =>
              (last.err \in IllegalColorAssignment /\ hand = last.pre)
        /\ (isWild(PlayedCard) /\ last.color = NoColor) =>
              (last.err \in IllegalColorAssignment /\ hand = last.pre)

\* C19 amended: play with a valid card index on a Hand that has not ended
\* fails with IllegalColorAssignment whenever a color is supplied for a card
\* that is not WILD or WILD DRAW, and whenever the color is omitted for a WILD
\* or WILD DRAW card that canPlay accepts; without a color, a WILD DRAW card
\* that canPlay rejects fails with IllegalPlay.  The Hand is left as it was.
C19_ColorAssignmentAfterLegality ==
    PlayOnCard =>
        /\ (~isWild(PlayedCard) /\ last.color # NoColor) =>
              (last.err = ColorOnColoredCard /\ hand = last.pre)
        /\ (isWild(PlayedCard) /\ last.color = NoColor) =>
              /\ last.err = IF canPlay(last.cardIndex, last.pre)
                             THEN ColorRequired ELSE IllegalPlay
              /\ last.err = IllegalPlay => PlayedCard.type = "WILD DRAW"
              /\ hand = last.pre

\* play was called without a color on a WILD DRAW card the player in turn
\* may play, and threw the color error
C19_Witness ==
    /\ PlayOnCard
    /\ PlayedCard.type = "WILD DRAW"
    /\ last.color = NoColor
    /\ canPlay(last.cardIndex, last.pre)
    /\ last.err = ColorRequired
    /\ hand = last.pre

(***************************************************************************)
(* C20                                                                     *)
(***************************************************************************)
\* C20: on a Hand for which hasEnded is true, play, draw and sayUno fail with
\* GameEnded and catchUnoFailure returns the Hand unchanged, so no call
\* yields another Hand value or a playerInTurn on a Hand that had none.
C20_EndedIsAbsorbing ==
    (HandExists /\ last.op # "createHand" /\ hasEnded(last.pre)) =>
        /\ hand = last.pre
        /\ last.op \in {"play", "draw", "sayUno"} => last.err = GameEnded
        /\ (last.op = "catchUnoFailure" /\ last.playerIndex \in 0..(last.pre.playerCount - 1)) =>
              last.err = NoError

(***************************************************************************)
(* C21                                                                     *)
(***************************************************************************)
\* the value the rules give a card: 50 for WILD and WILD DRAW, 20 for SKIP,
\* REVERSE and DRAW, the face number for NUMBERED
CardValue(card) ==
    CASE card.type \in {"WILD", "WILD DRAW"} -> 50
      [] card.type \in {"SKIP", "REVERSE", "DRAW"} -> 20
      [] card.type = "NUMBERED" -> card.number

RECURSIVE HeldValue(_, _, _)
\* the value of the first k cards player p holds in h
HeldValue(h, p, k) ==
    IF k = 0 THEN 0 ELSE HeldValue(h, p, k - 1) + CardValue(h.hands[p][k])

RECURSIVE OthersValue(_, _, _)
\* the value of the cards held by the players below p other than w
OthersValue(h, w, p) ==
    IF p = 0 THEN 0
    ELSE OthersValue(h, w, p - 1)
         + (IF p - 1 = w THEN 0 ELSE HeldValue(h, p - 1, Len(h.hands[p - 1])))

\* C21: on an ended Hand winner is the first index of a player whose hand
\* is empty and score is the sum of the values of the cards the other players
\* hold (WILD, WILD DRAW 50; SKIP, REVERSE, DRAW 20; NUMBERED its number); on a
\* Hand that has not ended winner and score are both absent.
C21_WinnerAndScore ==
    pc = "playing" =>
        IF hasEnded(hand)
        THEN /\ winner(hand) \in 0..(hand.playerCount - 1)
             /\ Len(hand.hands[winner(hand)]) = 0
             /\ \A q \in 0..(winner(hand) - 1) : Len(hand.hands[q]) > 0
             /\ score(hand) = OthersValue(hand, winner(hand), hand.playerCount)
        ELSE winner(hand) = Undefined /\ score(hand) = Undefined

\* a terminal play left another player holding a wild card and a card that
\* is not wild
C21_Witness ==
    /\ Succeeded("play")
    /\ hand.playerInTurn = Undefined
    /\ winner(hand) = Actor
    /\ \E p \in 0..(hand.playerCount - 1) :
          /\ \E k \in 1..Len(hand.hands[p]) : isWild(hand.hands[p][k])
          /\ \E k \in 1..Len(hand.hands[p]) : ~isWild(hand.hands[p][k])
    /\ score(hand) > 50

(***************************************************************************)
(* C22                                                                     *)
(***************************************************************************)
\* the Hand is the one createHand returned
Created == pc = "playing" /\ last.op = "createHand"

\* the player after the dealer, hit by a revealed DRAW card
AfterDealer(h) == (h.dealer + 1) % h.playerCount

\* C22: in the Hand createHand returns, a revealed REVERSE gives direction -1
\* and first player (dealer - 1) mod n; SKIP gives first player (dealer + 2)
\* mod n; DRAW makes player (dealer + 1) mod n hold cardsPerPlayer + 2 cards
\* and gives first player (dealer + 2) mod n; any other card gives first
\* player (dealer + 1) mod n; the direction is +1 unless REVERSE.  Every
\* player not hit by the DRAW holds cardsPerPlayer cards, the discard pile is
\* the revealed card alone, currentColor is its color, previousPlayer is
\* absent, the window is closed and all unoCalls are false.
C22_InitialCardEffect ==
    Created =>
        LET n == hand.playerCount
            top == hand.discardPile[1]
        IN  /\ Len(hand.discardPile) = 1
            /\ hand.currentColor = top.color
            /\ hand.previousPlayer = Null
            /\ ~hand.isAccusationWindowOpen
            /\ \A p \in 0..(n - 1) : ~hand.unoCalls[p]
            /\ hand.direction = IF top.type = "REVERSE" THEN -1 ELSE 1
            /\ hand.playerInTurn =
                  CASE top.type = "REVERSE" -> (hand.dealer - 1) % n
                    [] top.type \in {"SKIP", "DRAW"} -> (hand.dealer + 2) % n
                    [] OTHER -> (hand.dealer + 1) % n
            /\ \A p \in 0..(n - 1) :
                  Len(hand.hands[p]) =
                     IF top.type = "DRAW" /\ p = AfterDealer(hand)
                     THEN cardsPerPlayer + 2 ELSE cardsPerPlayer

\* the cards left in the draw pile once createHand has dealt and revealed
LeftAfterReveal(h) == DeckSize - h.playerCount * cardsPerPlayer - 1

\* C22 amended: as C22, except that the player hit by a revealed DRAW holds
\* cardsPerPlayer + min(2, cards left in the draw pile after the reveal)
\* cards: the recycling draw hands out fewer than 2 cards when the deal has
\* nearly exhausted the deck.
C22_InitialCardEffectWithinDeck ==
    Created =>
        LET n == hand.playerCount
            top == hand.discardPile[1]
        IN  /\ Len(hand.discardPile) = 1
            /\ hand.currentColor = top.color
            /\ hand.previousPlayer = Null
            /\ ~hand.isAccusationWindowOpen
            /\ \A p \in 0..(n - 1) : ~hand.unoCalls[p]
            /\ hand.direction = IF top.type = "REVERSE" THEN -1 ELSE 1
            /\ hand.playerInTurn =
                  CASE top.type = "REVERSE" -> (hand.dealer - 1) % n
                    [] top.type \in {"SKIP", "DRAW"} -> (hand.dealer + 2) % n
                    [] OTHER -> (hand.dealer + 1) % n
            /\ \A p \in 0..(n - 1) :
                  Len(hand.hands[p]) =
                     IF top.type = "DRAW" /\ p = AfterDealer(hand)
                     THEN cardsPerPlayer + Min(2, LeftAfterReveal(hand))
                     ELSE cardsPerPlayer
            /\ Len(hand.drawPile) =
                  IF top.type = "DRAW"
                  THEN LeftAfterReveal(hand) - Min(2, LeftAfterReveal(hand))
                  ELSE LeftAfterReveal(hand)

\* createHand revealed a DRAW card with one card left to draw: the player
\* after the dealer holds one card more than dealt and does not act first
C22_Witness ==
    /\ Created
    /\ hand.discardPile[1].type = "DRAW"
    /\ LeftAfterReveal(hand) = 1
    /\ Len(hand.hands[AfterDealer(hand)]) = cardsPerPlayer + 1
    /\ hand.playerInTurn = (hand.dealer + 2) % hand.playerCount

(***************************************************************************)
(* C23                                                                     *)
(***************************************************************************)
\* the draw pile createHand holds once the initial cards are dealt
DealtDrawPile(h) ==
    dealInitialCards(0, cardsPerPlayer, newHand(h.playerCount, h.dealer, h.shuffler)).drawPile

\* C23: in every Hand createHand returns, the top of the discard pile is
\* neither WILD nor WILD DRAW, and currentColor is one of the four colors.
C23_NoWildOnTop ==
    Created =>
        /\ ~isWild(hand.discardPile[1])
        /\ hand.discardPile[1].color \in Color
        /\ hand.currentColor \in Color

\* createHand found a wild card on top of the dealt draw pile, reshuffled
\* and returned a Hand
C23_Witness ==
    /\ Created
    /\ topIsWild(DealtDrawPile(hand))
    /\ ~isWild(hand.discardPile[1])

(***************************************************************************)
(* C24                                                                     *)
(***************************************************************************)
\* the player counts createHand accepts
ValidPlayerCounts == 2..10

\* C24: in every reachable Hand playerInTurn, when present, and
\* previousPlayer, when present, are seats in 0 .. playerCount - 1; and
\* getNextPlayer yields a seat for either direction, for an advance of one or
\* two seats, from every seat of every playerCount from 2 to 10.
C24_SeatsInRange ==
    /\ HandExists =>
         /\ hand.playerInTurn \in {Undefined} \cup (0..(hand.playerCount - 1))
         /\ hand.previousPlayer \in {Null} \cup (0..(hand.playerCount - 1))
         /\ hand.playerInTurn # Undefined =>
               \A skip \in BOOLEAN : getNextPlayer(hand, skip) \in 0..(hand.playerCount - 1)
    /\ pc = "start" =>
         \A n \in ValidPlayerCounts, d \in {1, -1}, skip \in BOOLEAN :
            \A p \in 0..(n - 1) :
               getNextPlayer([playerCount |-> n, playerInTurn |-> p, direction |-> d], skip)
                  = (p + (IF skip THEN 2 * d ELSE d)) % n

\* a play against the direction of the seats advanced two seats past seat 0
C24_Witness ==
    /\ NonTerminalPlay
    /\ ActorDirection = -1
    /\ Actor - 2 < 0
    /\ PlayedCard.type \in {"SKIP", "DRAW", "WILD DRAW"}
    /\ hand.playerInTurn = Actor - 2 + hand.playerCount
    /\ hand.previousPlayer = Actor

(***************************************************************************)
(* C25                                                                     *)
(***************************************************************************)
\* the card types of the deck
CardTypes == {"NUMBERED", "SKIP", "REVERSE", "DRAW", "WILD", "WILD DRAW"}

\* C25: in every reachable Hand the discard pile is not empty and its first
\* element is a card, never an absent entry, also after the pile was recycled.
C25_DiscardNeverEmpty ==
    HandExists =>
        /\ Len(hand.discardPile) >= 1
        /\ hand.discardPile[1] # UndefinedCard
        /\ hand.discardPile[1].type \in CardTypes

\* the draw pile ran empty during a draw while the discard pile held its top
\* card alone: the pile was recycled and the top card is still there
C25_Witness ==
    /\ Drew
    /\ RanEmpty
    /\ Len(DrawDiscard) = 1
    /\ hand.discardPile = DrawDiscard
    /\ hand.discardPile[1].type \in CardTypes

(***************************************************************************)
(* C26                                                                     *)
(***************************************************************************)
\* the last call was endHand, which returned
HandEnded == gameLast.op = "endHand" /\ gameLast.err = NoError

\* endHand started a new hand
NextHandStarted == HandEnded /\ game.currentHand # NoInitialHand

\* C26: a hand that endHand starts after the previous hand ended without a
\* match winner has dealer = (dealer of the previous hand + 1) mod
\* playerCount, hand after hand.
C26_DealerRotates ==
    NextHandStarted =>
        handDealers[Len(handDealers)]
            = (handDealers[Len(handDealers) - 1] + 1) % game.playerCount

(***************************************************************************)
(* C27                                                                     *)
(***************************************************************************)
RECURSIVE PlayerHandsValue(_, _, _)
\* the value of the cards that the first count players other than w hold in
\* the Game's hand h
PlayerHandsValue(h, w, count) ==
    IF count = 0 THEN 0
    ELSE PlayerHandsValue(h, w, count - 1)
         + (IF count - 1 = w THEN 0
            ELSE HeldValue([hands |-> h.playerHands], count - 1, Len(h.playerHands[count - 1])))

\* C27: endHand(state, handWinner) adds the score of the hand to handWinner's
\* cumulative score and leaves the other scores as they were; the match is
\* over (winner set, no current hand) iff some player's cumulative score is
\* then at least targetScore, and otherwise a new hand is started and no
\* match winner is set.
C27_EndHand ==
    HandEnded =>
        LET pre == gameLast.pre
            w == gameLast.playerIndex
            reached == \E p \in 0..(game.playerCount - 1) : game.scores[p] >= game.targetScore
        IN  /\ game.scores[w] =
                  pre.scores[w] + PlayerHandsValue(pre.currentHand, w, pre.playerCount)
            /\ \A p \in 0..(game.playerCount - 1) : p # w => game.scores[p] = pre.scores[p]
            /\ reached <=> (game.winner # Undefined /\ game.currentHand = NoInitialHand)
            /\ reached => game.winner = w
            /\ ~reached => (game.winner = Undefined /\ game.currentHand # NoInitialHand)

(***************************************************************************)
(* C28                                                                     *)
(***************************************************************************)
RECURSIVE LoopExits(_, _, _)
\* the loop at hand.ts:113-115, entered with pile, ends within k iterations
LoopExits(shuffler, pile, k) ==
    \/ ~topIsWild(pile)
    \/ k > 0 /\ LET reshuffled == shuffleDeck(shuffler, pile)
                IN  LoopExits(shuffler, SubSeq(reshuffled, 1, Len(reshuffled)), k - 1)

\* the loop at hand.ts:113-115 comes back to pile after two iterations with
\* a wild card on top each time: it never ends
LoopsForever(shuffler, pile) ==
    /\ topIsWild(pile)
    /\ topIsWild(shuffleDeck(shuffler, pile))
    /\ shuffleDeck(shuffler, shuffleDeck(shuffler, pile)) = pile

\* C28: createHand terminates for every shuffler and every cardsPerPlayer:
\* the loop that reshuffles while a wild card is on top of the draw pile ends
\* (here: within ReshuffleLimit iterations), and createHand then returns a
\* Hand or fails with NotEnoughCards.
C28_CreateHandTerminates ==
    pc = "reveal" =>
        /\ ~LoopsForever(hand.shuffler, currentDrawPile)
        /\ LoopExits(hand.shuffler, currentDrawPile, ReshuffleLimit)

(***************************************************************************)
(* C29                                                                     *)
(***************************************************************************)
\* C29: in every reachable Hand currentColor is the color recorded on the top
\* card of the discard pile, a played wild card being stored with the chosen
\* color; so the legality check, which reads the top card's color, agrees
\* with a check against currentColor.
C29_CurrentColorIsTopColor ==
    /\ HandExists =>
         /\ hand.currentColor = hand.discardPile[1].color
         /\ hand.currentColor \in Color
    /\ (pc = "playing" /\ ~hasEnded(hand)) =>
         \A i \in 0..(Len(TurnHand(hand)) - 1) :
            canPlay(i, hand) =
               isPlayable(TurnHand(hand), TurnHand(hand)[i + 1],
                          [hand.discardPile[1] EXCEPT !.color = hand.currentColor])

\* a wild card was played with a color other than the current one: the top
\* of the discard pile is that card with the chosen color
C29_Witness ==
    /\ Succeeded("play")
    /\ isWild(PlayedCard)
    /\ last.color # last.pre.currentColor
    /\ hand.discardPile[1] = [PlayedCard EXCEPT !.color = last.color]
    /\ hand.currentColor = last.color

(***************************************************************************)
(* C30                                                                     *)
(***************************************************************************)
\* the color arguments a card may be played with: none for a card that is
\* not wild, one of the four colors for a WILD or WILD DRAW
ColorArgsFor(card) == IF isWild(card) THEN Color ELSE {NoColor}

\* C30: canPlay and play agree in every reachable Hand: whenever canPlay(i,
\* hand) is true, play(i, color, hand) succeeds for some color argument (none
\* for a card that is not wild, one of the four colors for a WILD or WILD
\* DRAW), also for a wild card that was played with a color, recycled into the
\* draw pile and drawn again.
C30_CanPlayImpliesPlay ==
    (pc = "playing" /\ ~hasEnded(hand)) =>
        \A i \in 0..(Len(TurnHand(hand)) - 1) :
           canPlay(i, hand) =>
              \E color \in ColorArgsFor(TurnHand(hand)[i + 1]) :
                 playError(i, color, hand) = NoError

\* the same agreement for the cards that carry no color from an earlier play
C30_FreshCardsAgree ==
    (pc = "playing" /\ ~hasEnded(hand)) =>
        \A i \in 0..(Len(TurnHand(hand)) - 1) :
           (canPlay(i, hand) /\ ~(isWild(TurnHand(hand)[i + 1])
                                   /\ TurnHand(hand)[i + 1].color # NoColor)) =>
              \E color \in ColorArgsFor(TurnHand(hand)[i + 1]) :
                 playError(i, color, hand) = NoError

(***************************************************************************)
(* C31                                                                     *)
(***************************************************************************)
\* the last call returned and gave player p at least one card
GotCards(p) ==
    /\ HandExists
    /\ last.op \in {"play", "draw", "catchUnoFailure"}
    /\ last.err = NoError
    /\ Received(p, last.pre, hand) > 0

\* C31: a player who receives cards through a draw (the player's own draw,
\* the forced draw of a DRAW or WILD DRAW played by an opponent, the penalty of
\* catchUnoFailure) has the unoCalls entry false in the Hand returned; hence
\* in every Hand a player whose unoCalls entry is true holds at most 2 cards.
C31_DrawResetsUnoCall ==
    HandExists =>
        \A p \in 0..(hand.playerCount - 1) :
           /\ GotCards(p) => ~hand.unoCalls[p]
           /\ hand.unoCalls[p] => Len(hand.hands[p]) <= 2

\* the same for the player's own draw and for the penalty alone
C31_OwnDrawAndPenaltyReset ==
    HandExists =>
        \A p \in 0..(hand.playerCount - 1) :
           (GotCards(p) /\ last.op # "play") => ~hand.unoCalls[p]

\* the same for a forced draw that ends the round
C31_TerminalPlayResets ==
    HandExists =>
        \A p \in 0..(hand.playerCount - 1) :
           (GotCards(p) /\ hand.playerInTurn = Undefined) => ~hand.unoCalls[p]

(***************************************************************************)
(* C32                                                                     *)
(***************************************************************************)
\* the last call was a play of a DRAW or WILD DRAW that emptied the actor's
\* hand and ended the round
TerminalForcedDraw ==
    /\ Succeeded("play")
    /\ hand.playerInTurn = Undefined
    /\ Len(hand.hands[Actor]) = 0
    /\ forcedDraw(PlayedCard) > 0

\* the value of the cards the last draw handed out
DrawnValue ==
    HeldValue(hand, DrawReceiver, Len(hand.hands[DrawReceiver]))
       - HeldValue(hand, DrawReceiver, Len(last.pre.hands[DrawReceiver]))

\* C32: when the card that empties the actor's hand is a DRAW or WILD DRAW,
\* the player one seat ahead still receives the forced draw (2 or 4 cards, the
\* first of the draw pile, when it holds that many) before the round ends:
\* the score of the ended Hand is the value of the cards the other players
\* held plus that of the cards drawn, and the cards still number 108.
C32_ForcedDrawBeforeEnd ==
    TerminalForcedDraw =>
        LET n == hand.playerCount
            target == Seat(Actor, ActorDirection, n)
            amount == forcedDraw(PlayedCard)
        IN  /\ hand.hands[target] = last.pre.hands[target] \o DrawnCards
            /\ Len(last.pre.drawPile) >= amount =>
                  DrawnCards = SubSeq(last.pre.drawPile, 1, amount)
            /\ \A q \in 0..(n - 1) :
                  (q # target /\ q # Actor) => hand.hands[q] = last.pre.hands[q]
            /\ hasEnded(hand)
            /\ score(hand) = OthersValue(last.pre, Actor, n) + DrawnValue
            /\ CardCount(hand) = DeckSize
            /\ CardCount(hand) = CardCount(last.pre)

\* a WILD DRAW ended the round and the 4 cards drawn count in the score
C32_Witness ==
    /\ TerminalForcedDraw
    /\ PlayedCard.type = "WILD DRAW"
    /\ Received(Seat(Actor, ActorDirection, hand.playerCount), last.pre, hand) = 4
    /\ DrawnValue > 0
    /\ score(hand) > OthersValue(last.pre, Actor, hand.playerCount)

\* a DRAW ended the round and the 2 cards drawn count in the score
C32_WitnessDraw ==
    /\ TerminalForcedDraw
    /\ PlayedCard.type = "DRAW"
    /\ Received(Seat(Actor, ActorDirection, hand.playerCount), last.pre, hand) = 2
    /\ DrawnValue > 0

(***************************************************************************)
(* C33                                                                     *)
(***************************************************************************)
\* the last call was a catchUnoFailure that penalised the accused
Penalised == Succeeded("catchUnoFailure") /\ hand # last.pre

\* C33: a catchUnoFailure that penalises changes only the accused's hand, the
\* draw and discard piles, the accused's unoCalls entry and
\* isAccusationWindowOpen: playerInTurn, previousPlayer, direction,
\* currentColor, the top of the discard pile and the hands and unoCalls
\* entries of the other players are as before, and the Hand returned is the
\* same for every accuser.
C33_CatchUnoFailureFrame ==
    /\ Penalised =>
          /\ hand.playerInTurn = last.pre.playerInTurn
          /\ hand.previousPlayer = last.pre.previousPlayer
          /\ hand.direction = last.pre.direction
          /\ hand.currentColor = last.pre.currentColor
          /\ hand.discardPile[1] = last.pre.discardPile[1]
          /\ \A q \in 0..(hand.playerCount - 1) :
                q # last.playerIndex =>
                   /\ hand.hands[q] = last.pre.hands[q]
                   /\ hand.unoCalls[q] = last.pre.unoCalls[q]
          /\ hand = [last.pre EXCEPT
                        !.hands = hand.hands,
                        !.drawPile = hand.drawPile,
                        !.discardPile = hand.discardPile,
                        !.unoCalls = hand.unoCalls,
                        !.isAccusationWindowOpen = hand.isAccusationWindowOpen]
          /\ \A accuser \in (-1)..last.pre.playerCount :
                catchUnoFailure(accuser, last.playerIndex, last.pre) = hand
    /\ pc = "playing" =>
          \A accused \in 0..(hand.playerCount - 1),
             accuser \in (-1)..hand.playerCount :
                catchUnoFailure(accuser, accused, hand) = catchUnoFailure(0, accused, hand)

\* an accusation penalised a player while another player's unoCalls entry
\* was set, made by an accuser who is not the previous player
C33_Witness ==
    /\ Penalised
    /\ Received(last.playerIndex, last.pre, hand) = 4
    /\ last.accuser # last.pre.previousPlayer
    /\ \E q \in 0..(hand.playerCount - 1) :
          q # last.playerIndex /\ last.pre.unoCalls[q] /\ hand.unoCalls[q]

====
